---- MODULE Spec2Model ----
(***************************************************************************)
(* The local storage source of ext/storage_sources/local_store:            *)
(* objects are local files, created under a TEMP_ name, renamed to their   *)
(* final name when the handle is closed, and tracked for flushing both by  *)
(* an in-memory queue and by an empty FLUSH_ marker file.                  *)
(*                                                                         *)
(* C strings are sequences of one-character strings; NULL is a value that  *)
(* is no string.  A nullable struct pointer is a sequence of length 0      *)
(* (NULL) or 1 (the pointee).                                              *)
(***************************************************************************)
EXTENDS Integers, Sequences, FiniteSets, TLC

VARIABLES
    disk,              \* the paths of the files that exist
    fileq,             \* LOCAL_STORAGE.fileq: the open handles, head first
    flushq,            \* LOCAL_STORAGE.flushq: the flush items, head first
    file_handle_lock,  \* the thread holding file_handle_lock, NoThread when free
    flush_lock,        \* the thread holding flush_lock, NoThread when free
    force_error,       \* LOCAL_STORAGE.force_error
    superuser,         \* whether the process may write files of mode 0444
    op_count,          \* LOCAL_STORAGE.op_count
    fh_ops,            \* LOCAL_STORAGE.fh_ops
    object_flushes,    \* LOCAL_STORAGE.object_flushes
    read_ops,          \* LOCAL_STORAGE.read_ops
    write_ops,         \* LOCAL_STORAGE.write_ops
    dirent,            \* the inode number of each object file (final or TEMP_) of disk
    inodes,            \* the inodes of the object files, by number: data and history
    locs,              \* the location handles the callers hold
    call,              \* per thread: the position in the call it executes, and its locals
    result,            \* per thread: what its last completed call returned
    unlinked           \* (history) the objects a remove call has removed, each with
                       \* whether a create-open of it has succeeded since; the close of
                       \* a creation handle of an object created since takes it out

vars == <<disk, fileq, flushq, file_handle_lock, flush_lock, force_error, superuser,
          op_count, fh_ops, object_flushes, read_ops, write_ops, dirent, inodes, locs,
          call, result, unlinked>>

\* the inodes of the object files and the directory entries that name them; the
\* FLUSH_ marker files are empty and never opened again: disk alone records them
fsvars == <<dirent, inodes>>

\* the counters of the read and write calls
iovars == <<read_ops, write_ops>>

----------------------------------------------------------------------------
(* Bounds of the model. *)

\* calls counted by op_count that a behaviour may make
MaxOps == 4
\* files a directory may hold when it is listed
MaxDir == 4
\* read and write calls a behaviour may make
MaxIO == 2
\* bytes a read or write call may be asked to transfer
MaxLen == 2

\* the one caller of the sequential specifications, and the threads of the
\* concurrent one
Caller == "t1"
Threads == {Caller, "t2"}
NoThread == "none"

----------------------------------------------------------------------------
(* Values from errno.h and wiredtiger.h. *)

ENOENT == 2
EBADF == 9
EACCES == 13
EINVAL == 22
ENETUNREACH == 101
WT_SS_OPEN_CREATE == 1
WT_SS_OPEN_READONLY == 2

\* a char * that is NULL
NULL == <<"NULL">>
\* the value of an int that has not been assigned
UNSET == -1

MARKER_NEED_FLUSH == <<"F", "L", "U", "S", "H", "_">>
MARKER_TEMPORARY == <<"T", "E", "M", "P", "_">>

----------------------------------------------------------------------------
(* <string.h> *)

\* strncmp(s, p, strlen(p)) == 0
strncmp_eq(s, p) == Len(p) <= Len(s) /\ SubSeq(s, 1, Len(p)) = p

\* strstr(haystack, needle) != NULL
strstr(haystack, needle) ==
    \E i \in 1..(Len(haystack) + 1) :
        /\ i + Len(needle) - 1 <= Len(haystack)
        /\ SubSeq(haystack, i, i + Len(needle) - 1) = needle

\* strrchr(s, c) != NULL
strrchr(s, c) == \E i \in 1..Len(s) : s[i] = c

----------------------------------------------------------------------------
(* Inputs. *)

\* the location strings the callers pass, as the configuration parser returns
\* their values; a key that is absent has the value NULL
LocationInfos ==
    { [bucket |-> <<"p">>, cluster |-> <<"a">>, kmsid |-> <<"k">>],
      [bucket |-> <<"p">>, cluster |-> <<"a", "_", "b">>, kmsid |-> <<"k">>],
      [bucket |-> <<"p">>, cluster |-> <<"T", "E", "M", "P">>, kmsid |-> <<"k">>],
      [bucket |-> <<"q">>, cluster |-> <<"a">>, kmsid |-> <<"k">>],
      [bucket |-> <<"p">>, cluster |-> <<"a", "_", "/">>, kmsid |-> <<"k">>],
      [bucket |-> <<>>, cluster |-> <<"a">>, kmsid |-> <<"k">>],
      [bucket |-> <<"p">>, cluster |-> <<"a">>, kmsid |-> NULL] }

\* the object names the callers pass
Names == { <<"x">>, <<"b", "_", "x">> }

\* the bytes the callers write (0 is what a hole reads as)
Bytes == {1, 2}

\* the buffers the callers write
Buffers == UNION { [1..n -> Bytes] : n \in 0..MaxLen }

\* the offsets the callers read and write at
Offsets == 0..(MaxLen - 1)

\* the flags the callers pass to the open of an object: the two the interface
\* defines, and 0, which is neither
OpenFlags == {WT_SS_OPEN_CREATE, WT_SS_OPEN_READONLY, 0}

\* the values of the force_error configuration key
ForceErrors == {0, 1, 2}

----------------------------------------------------------------------------
(* Configuration and the path codec. *)

\* local_config_dup: [ret, result]
local_config_dup(v, suffix, disallowed) ==
    IF disallowed # NULL /\ strstr(v, disallowed)
    THEN [ret |-> EINVAL, result |-> NULL]
    ELSE [ret |-> 0, result |-> v \o (IF suffix = NULL THEN <<>> ELSE suffix)]

\* local_location_handle: [ret, location], location a sequence of 0 or 1 LOCAL_LOCATION
local_location_handle(info) ==
    LET cluster == local_config_dup(info.cluster, <<"_">>, <<"_", "/">>)
    IN  IF info.bucket = NULL \/ info.bucket = <<>> THEN [ret |-> EINVAL, location |-> <<>>]
        ELSE IF info.cluster = NULL THEN [ret |-> EINVAL, location |-> <<>>]
        ELSE IF cluster.ret # 0 THEN [ret |-> cluster.ret, location |-> <<>>]
        ELSE IF info.kmsid = NULL THEN [ret |-> EINVAL, location |-> <<>>]
        ELSE [ret |-> 0,
              location |-> << [bucket |-> local_config_dup(info.bucket, NULL, NULL).result,
                               cluster_prefix |-> cluster.result,
                               kmsid |-> local_config_dup(info.kmsid, NULL, NULL).result] >>]

\* local_location_path: "%s/%s%s%s" of bucket, marker, cluster_prefix, name
local_location_path(location, name, marker) ==
    location.bucket \o <<"/">> \o (IF marker = NULL THEN <<>> ELSE marker)
        \o location.cluster_prefix \o name

----------------------------------------------------------------------------
(* The file system. *)

\* readdir: the names of the entries of directory bucket
readdir(bucket) ==
    { SubSeq(f, Len(bucket) + 2, Len(f)) :
        f \in { g \in disk : /\ strncmp_eq(g, bucket \o <<"/">>)
                             /\ ~strrchr(SubSeq(g, Len(bucket) + 2, Len(g)), "/") } }

\* the directories that exist are the buckets (no call makes a directory): a file
\* can exist or be created only under a path with no "/" but the one after its bucket
InBucket(path) == Cardinality({ i \in DOMAIN path : path[i] = "/" }) = 1

\* the orders readdir may return the entries of a directory in
RECURSIVE Orders(_)
Orders(S) ==
    IF S = {} THEN { <<>> }
    ELSE UNION { { <<e>> \o o : o \in Orders(S \ {e}) } : e \in S }

\* opendir/readdir: the streams of directory entries a scan of bucket may see
DirStreams(bucket) == { <<<<".">>, <<".", ".">>>> \o o : o \in Orders(readdir(bucket)) }

\* an inode that open(.., O_CREAT, ..) has just created for a handle of location:
\* no data; writes is (history) the pwrite transfers made to it, in order, and
\* creators is (history) the locations whose create-opens have opened it
NewInode(location) == [data |-> <<>>, writes |-> <<>>, creators |-> {location}]

\* the directory entries d after unlink(path)
unlink(d, path) == [p \in DOMAIN d \ {path} |-> d[p]]

\* the directory entries d after rename(from, to)
rename(d, from, to) ==
    [p \in (DOMAIN d \ {from}) \cup {to} |-> IF p = to THEN d[from] ELSE d[p]]

----------------------------------------------------------------------------
(* The flush queue. *)

\* a faulty local_delay, which fails the flush before each multiple of force_error
local_delay_early(flushes) ==
    IF force_error # 0 /\ (flushes + 1) % force_error = 0 THEN ENETUNREACH ELSE 0

\* local_delay: the simulated network error, after flushes object flushes
local_delay(flushes) ==
    IF force_error # 0 /\ flushes % force_error = 0 THEN ENETUNREACH ELSE 0

\* a faulty local_flush_one, which reports success and leaves the marker file
local_flush_one_keeps(item) ==
    LET flushes == object_flushes + 1
        delay == local_delay(flushes)
    IN  IF delay # 0
        THEN [ret |-> delay, object_flushes |-> flushes, disk |-> disk]
        ELSE [ret |-> 0, object_flushes |-> flushes, disk |-> disk]

\* a faulty local_flush_one, which unlinks the marker file although local_delay failed
local_flush_one_unlinks(item) ==
    LET flushes == object_flushes + 1
        delay == local_delay(flushes)
    IN  IF delay # 0
        THEN [ret |-> delay, object_flushes |-> flushes, disk |-> disk \ {item.marker_path}]
        ELSE IF item.marker_path \in disk
        THEN [ret |-> 0, object_flushes |-> flushes, disk |-> disk \ {item.marker_path}]
        ELSE [ret |-> ENOENT, object_flushes |-> flushes, disk |-> disk]

\* local_flush_one: [ret, object_flushes, disk] after flushing item.  Every src_path
\* holds a '/' (local_location_path writes one), so object_name is never NULL.
local_flush_one(item) ==
    LET named == strrchr(item.src_path, "/")
        flushes == IF named THEN object_flushes + 1 ELSE object_flushes
        delay == IF named THEN local_delay(flushes) ELSE 0
    IN  IF delay # 0
        THEN [ret |-> delay, object_flushes |-> flushes, disk |-> disk]
        ELSE IF item.marker_path \in disk
        THEN [ret |-> 0, object_flushes |-> flushes, disk |-> disk \ {item.marker_path}]
        ELSE [ret |-> ENOENT, object_flushes |-> flushes, disk |-> disk]

\* a faulty test, which takes every item when a name is given
FlushMatches_all(item, match, name) ==
    IF match = NULL THEN TRUE
    ELSE IF name # NULL THEN TRUE
    ELSE strncmp_eq(item.src_path, match)

\* the test of local_flush's loop: whether item is to be flushed
FlushMatches(item, match, name) ==
    IF match = NULL THEN TRUE
    ELSE IF name # NULL THEN item.src_path = match
    ELSE strncmp_eq(item.src_path, match)

\* TAILQ_REMOVE of the i-th element
TAILQ_REMOVE(q, i) == SubSeq(q, 1, i - 1) \o SubSeq(q, i + 1, Len(q))

\* TAILQ_INSERT_HEAD
TAILQ_INSERT_HEAD(q, e) == <<e>> \o q

----------------------------------------------------------------------------
(* Listing. *)

\* a faulty loop, which compares the prefix with the entry before the cluster prefix
\* is taken off
RECURSIVE ListLoop_unstripped(_, _, _, _, _, _)
ListLoop_unstripped(location, marker, prefix, limit, dir, entries) ==
    IF dir = <<>> \/ ~(limit = 0 \/ Len(entries) < limit) THEN entries
    ELSE
        LET basename == Head(dir)
            rest == Tail(dir)
            unmarked == IF marker = NULL THEN basename
                        ELSE SubSeq(basename, Len(marker) + 1, Len(basename))
            stripped == SubSeq(unmarked, Len(location.cluster_prefix) + 1, Len(unmarked))
            skip ==
                \/ basename = <<".">>
                \/ basename = <<".", ".">>
                \/ /\ marker = NULL
                   /\ \/ strncmp_eq(basename, MARKER_TEMPORARY)
                      \/ strncmp_eq(basename, MARKER_NEED_FLUSH)
                \/ marker # NULL /\ ~strncmp_eq(basename, marker)
                \/ ~strncmp_eq(unmarked, location.cluster_prefix)
                \/ prefix # NULL /\ ~strncmp_eq(unmarked, prefix)
        IN  IF skip THEN ListLoop_unstripped(location, marker, prefix, limit, rest, entries)
            ELSE ListLoop_unstripped(location, marker, prefix, limit, rest,
                                     Append(entries, stripped))

\* a faulty loop, which does not pass over the TEMP_ and FLUSH_ files in an ordinary
\* listing
RECURSIVE ListLoop_tags(_, _, _, _, _, _)
ListLoop_tags(location, marker, prefix, limit, dir, entries) ==
    IF dir = <<>> \/ ~(limit = 0 \/ Len(entries) < limit) THEN entries
    ELSE
        LET basename == Head(dir)
            rest == Tail(dir)
            unmarked == IF marker = NULL THEN basename
                        ELSE SubSeq(basename, Len(marker) + 1, Len(basename))
            stripped == SubSeq(unmarked, Len(location.cluster_prefix) + 1, Len(unmarked))
            skip ==
                \/ basename = <<".">>
                \/ basename = <<".", ".">>
                \/ marker # NULL /\ ~strncmp_eq(basename, marker)
                \/ ~strncmp_eq(unmarked, location.cluster_prefix)
                \/ prefix # NULL /\ ~strncmp_eq(stripped, prefix)
        IN  IF skip THEN ListLoop_tags(location, marker, prefix, limit, rest, entries)
            ELSE ListLoop_tags(location, marker, prefix, limit, rest, Append(entries, stripped))

\* the loop of local_location_list_internal over the directory stream dir, entries
\* being the names accepted so far
RECURSIVE ListLoop(_, _, _, _, _, _)
ListLoop(location, marker, prefix, limit, dir, entries) ==
    IF dir = <<>> \/ ~(limit = 0 \/ Len(entries) < limit) THEN entries
    ELSE
        LET basename == Head(dir)
            rest == Tail(dir)
            unmarked == IF marker = NULL THEN basename
                        ELSE SubSeq(basename, Len(marker) + 1, Len(basename))
            stripped == SubSeq(unmarked, Len(location.cluster_prefix) + 1, Len(unmarked))
            skip ==
                \/ basename = <<".">>
                \/ basename = <<".", ".">>
                \/ /\ marker = NULL
                   /\ \/ strncmp_eq(basename, MARKER_TEMPORARY)
                      \/ strncmp_eq(basename, MARKER_NEED_FLUSH)
                \/ marker # NULL /\ ~strncmp_eq(basename, marker)
                \/ ~strncmp_eq(unmarked, location.cluster_prefix)
                \/ prefix # NULL /\ ~strncmp_eq(stripped, prefix)
        IN  IF skip THEN ListLoop(location, marker, prefix, limit, rest, entries)
            ELSE ListLoop(location, marker, prefix, limit, rest, Append(entries, stripped))

\* local_location_list_internal: the names returned for the directory stream dir
local_location_list_internal(location, marker, prefix, limit, dir) ==
    ListLoop(location, marker, prefix, limit, dir, <<>>)

----------------------------------------------------------------------------
(* State. *)

\* a thread that executes no call.  The fields are the locals of the call; flush is
\* the item the loop of local_flush flushed last; flushq0, disk0 and object_flushes0
\* are (history) the queue, the files and the counter as local_flush found them when
\* it took the lock, and rets is (history) what local_flush_one returned for the items
\* flushed so far, in the order of the loop.  offset and len are the arguments of a
\* read or write call as its loop updates them, buf is what is left to write, or
\* what has been read so far; offset0, len0 and buf0 are (history) the arguments
\* as the caller passed them.
Idle ==
    [pc |-> "idle", location |-> <<>>, name |-> NULL, flags |-> 0, local_fh |-> <<>>,
     match |-> NULL, flush |-> <<>>, idx |-> 0, ret |-> 0, t_ret |-> UNSET,
     flushq0 |-> <<>>, disk0 |-> {}, object_flushes0 |-> 0, rets |-> <<>>,
     offset |-> 0, len |-> 0, buf |-> <<>>, offset0 |-> 0, len0 |-> 0, buf0 |-> <<>>]

\* what a thread that has made no call has been returned
NoResult == [op |-> "none", ret |-> 0, val |-> <<>>, location |-> <<>>, name |-> NULL,
             local_fh |-> <<>>]

Returned(op, ret, val, location, name, local_fh) ==
    [op |-> op, ret |-> ret, val |-> val, location |-> location, name |-> name,
     local_fh |-> local_fh]

\* wiredtiger_extension_init: empty queues, zeroed counters, the configured
\* force_error; the bucket directories exist and are empty
Init ==
    /\ disk = {}
    /\ fileq = <<>>
    /\ flushq = <<>>
    /\ file_handle_lock = NoThread
    /\ flush_lock = NoThread
    /\ force_error \in ForceErrors
    /\ superuser \in BOOLEAN
    /\ op_count = 0
    /\ fh_ops = 0
    /\ object_flushes = 0
    /\ read_ops = 0
    /\ write_ops = 0
    /\ dirent = [path \in {} |-> 0]
    /\ inodes = <<>>
    /\ locs = {}
    /\ call = [t \in Threads |-> Idle]
    /\ result = [t \in Threads |-> NoResult]
    /\ unlinked = {}

\* thread t may enter a call that op_count counts
MayCall(t) == call[t].pc = "idle" /\ op_count < MaxOps

Return(t, r) ==
    /\ call' = [call EXCEPT ![t] = Idle]
    /\ result' = [result EXCEPT ![t] = r]

----------------------------------------------------------------------------
(* Locations, existence, removal, listing. *)

\* local_location_handle
LocationHandle(t, info) ==
    /\ MayCall(t)
    /\ op_count' = op_count + 1
    /\ LET r == local_location_handle(info)
       IN  /\ locs' = IF r.ret = 0 THEN locs \cup {r.location[1]} ELSE locs
           /\ Return(t, Returned("location_handle", r.ret, r.location, <<>>, NULL, <<>>))
    /\ UNCHANGED <<disk, fileq, flushq, file_handle_lock, flush_lock, force_error,
                   superuser, fh_ops, object_flushes>>
    /\ UNCHANGED <<fsvars, iovars, unlinked>>

\* local_exist: *existp
local_exist(location, name) == local_location_path(location, name, NULL) \in disk

\* the call of local_exist
Exist(t, location, name) ==
    /\ MayCall(t)
    /\ op_count' = op_count + 1
    /\ Return(t, Returned("exist", 0, <<local_exist(location, name)>>,
                          <<location>>, name, <<>>))
    /\ UNCHANGED <<disk, fileq, flushq, file_handle_lock, flush_lock, force_error,
                   superuser, fh_ops, object_flushes, locs>>
    /\ UNCHANGED <<fsvars, iovars, unlinked>>

\* local_remove
Remove(t, location, name) ==
    /\ MayCall(t)
    /\ op_count' = op_count + 1
    /\ LET path == local_location_path(location, name, NULL)
       IN  /\ disk' = disk \ {path}
           /\ dirent' = unlink(dirent, path)
           /\ inodes' = inodes
           /\ Return(t, Returned("remove", IF path \in disk THEN 0 ELSE ENOENT, <<>>,
                                 <<location>>, name, <<>>))
           /\ unlinked' = IF path \in disk
                          THEN { o \in unlinked : o.location # location \/ o.name # name }
                                  \cup {[location |-> location, name |-> name,
                                         created |-> FALSE]}
                          ELSE unlinked
    /\ UNCHANGED <<fileq, flushq, file_handle_lock, flush_lock, force_error,
                   superuser, fh_ops, object_flushes, locs>>
    /\ UNCHANGED iovars

\* local_location_list
LocationList(t, location, prefix, limit, dir) ==
    /\ MayCall(t)
    /\ Cardinality(readdir(location.bucket)) <= MaxDir
    /\ op_count' = op_count + 1
    /\ Return(t, Returned("location_list", 0,
                          local_location_list_internal(location, NULL, prefix, limit, dir),
                          <<location>>, prefix, <<>>))
    /\ UNCHANGED <<disk, fileq, flushq, file_handle_lock, flush_lock, force_error,
                   superuser, fh_ops, object_flushes, locs>>
    /\ UNCHANGED <<fsvars, iovars, unlinked>>

----------------------------------------------------------------------------
(* local_open. *)

\* open(flush->marker_path, O_WRONLY | O_CREAT, 0666): 0 or the errno
marker_errno(marker_path) == IF InBucket(marker_path) THEN 0 ELSE ENOENT

\* OpenObject without the test of what the open of the marker file returned
OpenObject_unchecked(t, location, name, flags) ==
    /\ MayCall(t)
    /\ op_count' = op_count + 1
    /\ LET item == [src_path |-> NULL,
                    marker_path |-> local_location_path(location, name, MARKER_NEED_FLUSH),
                    bucket |-> location.bucket,
                    kmsid |-> location.kmsid,
                    location |-> location,   \* (history) the location it was created through
                    owner |-> NoThread]      \* the thread whose local "flush" points to it
           path == local_location_path(location, name, NULL)
           \* location and fresh are (history) the location the handle was opened
           \* through, and whether no file had its final name then
           created == [name |-> name,
                       location |-> location,
                       fresh |-> path \notin disk,
                       path |-> path,
                       temp_path |-> local_location_path(location, name, MARKER_TEMPORARY),
                       fd |-> 0,
                       flush |-> <<item>>]
           opened == [name |-> name,
                      location |-> location,
                      fresh |-> path \notin disk,
                      path |-> path,
                      temp_path |-> NULL,
                      fd |-> 0,
                      flush |-> <<>>]
       IN  IF flags = WT_SS_OPEN_CREATE
           THEN /\ disk' = IF marker_errno(item.marker_path) = 0
                           THEN disk \cup {item.marker_path} ELSE disk
                /\ call' = [call EXCEPT ![t] =
                              [Idle EXCEPT !.pc = "open_file", !.location = <<location>>,
                                           !.name = name, !.flags = flags,
                                           !.local_fh = <<created>>]]
                /\ result' = result
           ELSE /\ disk' = disk
                /\ call' = [call EXCEPT ![t] =
                              [Idle EXCEPT !.pc = "open_file", !.location = <<location>>,
                                           !.name = name, !.flags = flags,
                                           !.local_fh = <<opened>>]]
                /\ result' = result
    /\ UNCHANGED <<fileq, flushq, file_handle_lock, flush_lock, force_error, superuser,
                   fh_ops, object_flushes, locs>>
    /\ UNCHANGED <<fsvars, iovars, unlinked>>

\* a faulty local_open, whose creation handle gets no flush item
OpenObject_noitem(t, location, name, flags) ==
    /\ MayCall(t)
    /\ op_count' = op_count + 1
    /\ LET item == [src_path |-> NULL,
                    marker_path |-> local_location_path(location, name, MARKER_NEED_FLUSH),
                    bucket |-> location.bucket,
                    kmsid |-> location.kmsid,
                    location |-> location,   \* (history) the location it was created through
                    owner |-> NoThread]      \* the thread whose local "flush" points to it
           path == local_location_path(location, name, NULL)
           \* location and fresh are (history) the location the handle was opened
           \* through, and whether no file had its final name then
           created == [name |-> name,
                       location |-> location,
                       fresh |-> path \notin disk,
                       path |-> path,
                       temp_path |-> local_location_path(location, name, MARKER_TEMPORARY),
                       fd |-> 0,
                       flush |-> <<>>]
           opened == [name |-> name,
                      location |-> location,
                      fresh |-> path \notin disk,
                      path |-> path,
                      temp_path |-> NULL,
                      fd |-> 0,
                      flush |-> <<>>]
       IN  IF flags = WT_SS_OPEN_CREATE
           THEN IF marker_errno(item.marker_path) = 0
                THEN /\ disk' = disk \cup {item.marker_path}
                     /\ call' = [call EXCEPT ![t] =
                                   [Idle EXCEPT !.pc = "open_file",
                                                !.location = <<location>>,
                                                !.name = name, !.flags = flags,
                                                !.local_fh = <<created>>]]
                     /\ result' = result
                ELSE /\ disk' = disk
                     /\ Return(t, Returned("open", marker_errno(item.marker_path), <<>>,
                                           <<location>>, name, <<>>))
           ELSE /\ disk' = disk
                /\ call' = [call EXCEPT ![t] =
                              [Idle EXCEPT !.pc = "open_file", !.location = <<location>>,
                                           !.name = name, !.flags = flags,
                                           !.local_fh = <<opened>>]]
                /\ result' = result
    /\ UNCHANGED <<fileq, flushq, file_handle_lock, flush_lock, force_error, superuser,
                   fh_ops, object_flushes, locs>>
    /\ UNCHANGED <<fsvars, iovars, unlinked>>

\* local_open up to the open of the object's file: the flags, the handle, and
\* for a created object its flush item and its marker file; the error path when the
\* marker file cannot be created
OpenObject(t, location, name, flags) ==
    /\ MayCall(t)
    /\ op_count' = op_count + 1
    /\ LET item == [src_path |-> NULL,
                    marker_path |-> local_location_path(location, name, MARKER_NEED_FLUSH),
                    bucket |-> location.bucket,
                    kmsid |-> location.kmsid,
                    location |-> location,   \* (history) the location it was created through
                    owner |-> NoThread]      \* the thread whose local "flush" points to it
           path == local_location_path(location, name, NULL)
           \* location and fresh are (history) the location the handle was opened
           \* through, and whether no file had its final name then
           created == [name |-> name,
                       location |-> location,
                       fresh |-> path \notin disk,
                       path |-> path,
                       temp_path |-> local_location_path(location, name, MARKER_TEMPORARY),
                       fd |-> 0,
                       flush |-> <<item>>]
           opened == [name |-> name,
                      location |-> location,
                      fresh |-> path \notin disk,
                      path |-> path,
                      temp_path |-> NULL,
                      fd |-> 0,
                      flush |-> <<>>]
       IN  IF flags # WT_SS_OPEN_CREATE /\ flags # WT_SS_OPEN_READONLY
           THEN \* invalid flags: goto err before any handle is allocated
                /\ disk' = disk
                /\ call' = [call EXCEPT ![t] =
                              [Idle EXCEPT !.pc = "open_err", !.location = <<location>>,
                                           !.name = name, !.flags = flags,
                                           !.ret = EINVAL]]
                /\ result' = result
           ELSE IF flags = WT_SS_OPEN_CREATE
           THEN IF marker_errno(item.marker_path) = 0
                THEN /\ disk' = disk \cup {item.marker_path}
                     /\ call' = [call EXCEPT ![t] =
                                   [Idle EXCEPT !.pc = "open_file",
                                                !.location = <<location>>,
                                                !.name = name, !.flags = flags,
                                                !.local_fh = <<created>>]]
                     /\ result' = result
                ELSE /\ disk' = disk
                     /\ Return(t, Returned("open", marker_errno(item.marker_path), <<>>,
                                           <<location>>, name, <<>>))
           ELSE /\ disk' = disk
                /\ call' = [call EXCEPT ![t] =
                              [Idle EXCEPT !.pc = "open_file", !.location = <<location>>,
                                           !.name = name, !.flags = flags,
                                           !.local_fh = <<opened>>]]
                /\ result' = result
    /\ UNCHANGED <<fileq, flushq, file_handle_lock, flush_lock, force_error, superuser,
                   fh_ops, object_flushes, locs>>
    /\ UNCHANGED <<fsvars, iovars, unlinked>>

\* the process has crashed: no thread takes a step any more
Crashed == [t \in Threads |-> [Idle EXCEPT !.pc = "crashed"]]

\* local_open, err: after invalid flags local_fh is still NULL, and the first
\* statement of local_file_close_internal reads local_fh->fd through it.  The
\* process crashes, or the read yields some value and the call returns ret.
OpenErr(t) ==
    /\ call[t].pc = "open_err"
    /\ call[t].local_fh = <<>>
    /\ \/ /\ call' = Crashed
          /\ result' = result
       \/ Return(t, Returned("open", call[t].ret, <<>>, call[t].location,
                             call[t].name, <<>>))
    /\ UNCHANGED <<disk, fileq, flushq, file_handle_lock, flush_lock, force_error,
                   superuser, op_count, fh_ops, object_flushes, locs>>
    /\ UNCHANGED <<fsvars, iovars, unlinked>>

\* open(open_name, oflags, 0444): 0 or the errno.  A file that exists was created with
\* mode 0444: only the superuser opens it for writing.
open_errno(open_name, flags) ==
    IF ~InBucket(open_name) THEN ENOENT
    ELSE IF flags = WT_SS_OPEN_CREATE
    THEN IF open_name \in disk /\ ~superuser THEN EACCES ELSE 0
    ELSE IF open_name \in disk THEN 0 ELSE ENOENT

\* local_open from the open of the object's file: the handle enters fileq, or the
\* error path frees it (local_file_close_internal, final)
OpenFile(t) ==
    /\ call[t].pc = "open_file"
    /\ LET local_fh == call[t].local_fh[1]
           open_name == IF call[t].flags = WT_SS_OPEN_CREATE THEN local_fh.temp_path
                        ELSE local_fh.path
           ret == open_errno(open_name, call[t].flags)
           \* the file open_name names, or the one O_CREAT makes
           fd == IF open_name \in DOMAIN dirent THEN dirent[open_name] ELSE Len(inodes) + 1
           opened == [local_fh EXCEPT !.fd = fd]
       IN  IF ret = 0
           THEN /\ file_handle_lock = NoThread
                /\ disk' = disk \cup {open_name}
                /\ dirent' = [p \in DOMAIN dirent \cup {open_name} |->
                                 IF p = open_name THEN fd ELSE dirent[p]]
                /\ inodes' = IF open_name \notin DOMAIN dirent
                              THEN Append(inodes, NewInode(local_fh.location))
                              ELSE IF call[t].flags = WT_SS_OPEN_CREATE
                              THEN [inodes EXCEPT ![fd].creators =
                                                      @ \cup {local_fh.location}]
                              ELSE inodes
                /\ fileq' = <<opened>> \o fileq
                /\ Return(t, Returned("open", 0, <<opened>>, call[t].location,
                                      call[t].name, <<opened>>))
                /\ unlinked' = IF call[t].flags = WT_SS_OPEN_CREATE
                               THEN { IF o.location = local_fh.location
                                         /\ o.name = local_fh.name
                                      THEN [o EXCEPT !.created = TRUE] ELSE o :
                                      o \in unlinked }
                               ELSE unlinked
           ELSE /\ disk' = disk
                /\ UNCHANGED <<fsvars, unlinked>>
                /\ fileq' = fileq
                /\ Return(t, Returned("open", ret, <<>>, call[t].location,
                                      call[t].name, <<>>))
    /\ UNCHANGED <<flushq, file_handle_lock, flush_lock, force_error, superuser,
                   op_count, fh_ops, object_flushes, locs>>
    /\ UNCHANGED iovars

----------------------------------------------------------------------------
(* local_file_close. *)

\* local_file_close: the handle leaves fileq under file_handle_lock
CloseBegin(t, i) ==
    /\ call[t].pc = "idle"
    /\ i \in 1..Len(fileq)
    /\ file_handle_lock = NoThread
    /\ fh_ops' = fh_ops + 1
    /\ fileq' = SubSeq(fileq, 1, i - 1) \o SubSeq(fileq, i + 1, Len(fileq))
    /\ call' = [call EXCEPT ![t] =
                  [Idle EXCEPT !.pc = IF fileq[i].flush # <<>> THEN "close_flush"
                                      ELSE "close_internal",
                               !.local_fh = <<fileq[i]>>,
                               !.flushq0 = flushq]]
    /\ UNCHANGED <<disk, flushq, file_handle_lock, flush_lock, force_error, superuser,
                   op_count, object_flushes, locs, result>>
    /\ UNCHANGED <<fsvars, iovars, unlinked>>

\* local_file_close: the handle's flush item enters flushq under flush_lock
CloseEnqueue(t) ==
    /\ call[t].pc = "close_flush"
    /\ flush_lock = NoThread
    /\ LET local_fh == call[t].local_fh[1]
       IN  /\ flushq' = <<[local_fh.flush[1] EXCEPT !.owner = t]>> \o flushq
           /\ call' = [call EXCEPT ![t].pc = "close_stamp",
                                   ![t].local_fh = <<[local_fh EXCEPT !.flush = <<>>]>>]
    /\ UNCHANGED <<disk, fileq, file_handle_lock, flush_lock, force_error, superuser,
                   op_count, fh_ops, object_flushes, locs, result>>
    /\ UNCHANGED <<fsvars, iovars, unlinked>>

\* a faulty assignment, which gives every item of the queue the path
Stamp_all(q, t, path) ==
    [i \in 1..Len(q) |->
        IF q[i].owner = t THEN [q[i] EXCEPT !.src_path = path, !.owner = NoThread]
        ELSE [q[i] EXCEPT !.src_path = path]]

\* flush->src_path = strdup(local_fh->path), on the item thread t's "flush" points to
Stamp(q, t, path) ==
    [i \in 1..Len(q) |->
        IF q[i].owner = t THEN [q[i] EXCEPT !.src_path = path, !.owner = NoThread]
        ELSE q[i]]

\* local_file_close: after the unlock, the item gets its src_path.  When a flush has
\* removed and freed the item, the assignment writes into freed memory: it is lost,
\* or the process crashes
CloseStamp(t) ==
    /\ call[t].pc = "close_stamp"
    /\ \/ /\ flushq' = Stamp(flushq, t, call[t].local_fh[1].path)
          /\ call' = [call EXCEPT ![t].pc = "close_internal"]
       \/ /\ \A i \in DOMAIN flushq : flushq[i].owner # t
          /\ flushq' = flushq
          /\ call' = [u \in Threads |-> [Idle EXCEPT !.pc = "crashed"]]
    /\ UNCHANGED <<disk, fileq, file_handle_lock, flush_lock, force_error, superuser,
                   op_count, fh_ops, object_flushes, locs, result>>
    /\ UNCHANGED <<fsvars, iovars, unlinked>>

\* local_file_close_internal: [ret, disk, dirent] after closing local_fh
local_file_close_internal(local_fh, final) ==
    IF ~final /\ local_fh.temp_path # NULL
    THEN IF local_fh.temp_path \in disk
         THEN [ret |-> 0, disk |-> (disk \ {local_fh.temp_path}) \cup {local_fh.path},
               dirent |-> rename(dirent, local_fh.temp_path, local_fh.path)]
         ELSE [ret |-> ENOENT, disk |-> disk, dirent |-> dirent]
    ELSE [ret |-> 0, disk |-> disk, dirent |-> dirent]

\* local_file_close: the internal close, and the return
CloseInternal(t) ==
    /\ call[t].pc = "close_internal"
    /\ LET r == local_file_close_internal(call[t].local_fh[1], FALSE)
       IN  /\ disk' = r.disk
           /\ dirent' = r.dirent
           /\ inodes' = inodes
           /\ Return(t, Returned("close", r.ret, <<>>, <<>>, call[t].local_fh[1].name,
                                 call[t].local_fh))
           /\ unlinked' = IF call[t].local_fh[1].temp_path # NULL /\ r.ret = 0
                          THEN unlinked \ {[location |-> call[t].local_fh[1].location,
                                            name |-> call[t].local_fh[1].name,
                                            created |-> TRUE]}
                          ELSE unlinked
    /\ UNCHANGED <<fileq, flushq, file_handle_lock, flush_lock, force_error, superuser,
                   op_count, fh_ops, object_flushes, locs>>
    /\ UNCHANGED iovars

----------------------------------------------------------------------------
(* local_size, local_file_write, local_file_read. *)

\* local_size: stat of the final path
Size(t, location, name) ==
    /\ MayCall(t)
    /\ op_count' = op_count + 1
    /\ LET path == local_location_path(location, name, NULL)
       IN  IF path \in DOMAIN dirent
           THEN Return(t, Returned("size", 0, <<Len(inodes[dirent[path]].data)>>,
                                   <<location>>, name, <<>>))
           ELSE Return(t, Returned("size", ENOENT, <<>>, <<location>>, name, <<>>))
    /\ UNCHANGED <<disk, fileq, flushq, file_handle_lock, flush_lock, force_error,
                   superuser, fh_ops, object_flushes, locs>>
    /\ UNCHANGED <<fsvars, iovars, unlinked>>

\* thread t may enter a read or write call
MayTransfer(t) == call[t].pc = "idle" /\ read_ops + write_ops < MaxIO

\* the data of a file after pwrite of bytes at offset: a gap before offset reads as 0
pwrite(data, bytes, offset) ==
    LET end == offset + Len(bytes)
        size == IF end > Len(data) /\ bytes # <<>> THEN end ELSE Len(data)
    IN  [i \in 1..size |-> IF i > offset /\ i <= end THEN bytes[i - offset]
                           ELSE IF i <= Len(data) THEN data[i]
                           ELSE 0]

\* local_file_write up to its loop
WriteBegin(t, i, offset, buf) ==
    /\ MayTransfer(t)
    /\ i \in 1..Len(fileq)
    /\ write_ops' = write_ops + 1
    /\ call' = [call EXCEPT ![t] =
                  [Idle EXCEPT !.pc = "write", !.local_fh = <<fileq[i]>>,
                               !.offset = offset, !.len = Len(buf), !.buf = buf,
                               !.offset0 = offset, !.len0 = Len(buf), !.buf0 = buf]]
    /\ UNCHANGED <<disk, fileq, flushq, file_handle_lock, flush_lock, force_error,
                   superuser, op_count, fh_ops, object_flushes, read_ops, locs, result>>
    /\ UNCHANGED <<fsvars, unlinked>>

\* WriteStep with a loop that forgets to advance addr
WriteStep_rewind(t, nbytes) ==
    /\ call[t].pc = "write"
    /\ call[t].ret = 0
    /\ call[t].len > 0
    /\ LET local_fh == call[t].local_fh[1]
       IN  IF local_fh.temp_path = NULL
           THEN /\ call' = [call EXCEPT ![t].ret = EBADF]
                /\ inodes' = inodes
           ELSE /\ nbytes \in 1..call[t].len
                /\ inodes' = [inodes EXCEPT ![local_fh.fd].data =
                                 pwrite(@, SubSeq(call[t].buf0, 1, nbytes), call[t].offset)]
                /\ call' = [call EXCEPT ![t].buf = SubSeq(@, nbytes + 1, Len(@)),
                                        ![t].len = @ - nbytes,
                                        ![t].offset = @ + nbytes]
    /\ UNCHANGED <<disk, fileq, flushq, file_handle_lock, flush_lock, force_error,
                   superuser, op_count, fh_ops, object_flushes, locs, result>>
    /\ UNCHANGED <<dirent, iovars, unlinked>>

\* one round of the loop of local_file_write: pwrite fails on a descriptor that was
\* not opened for writing, or transfers nbytes bytes, which may be fewer than len
WriteStep(t, nbytes) ==
    /\ call[t].pc = "write"
    /\ call[t].ret = 0
    /\ call[t].len > 0
    /\ LET local_fh == call[t].local_fh[1]
       IN  IF local_fh.temp_path = NULL
           THEN /\ call' = [call EXCEPT ![t].ret = EBADF]
                /\ inodes' = inodes
           ELSE /\ nbytes \in 1..call[t].len
                /\ inodes' = [inodes EXCEPT ![local_fh.fd].data =
                                 pwrite(@, SubSeq(call[t].buf, 1, nbytes), call[t].offset)]
                /\ call' = [call EXCEPT ![t].buf = SubSeq(@, nbytes + 1, Len(@)),
                                        ![t].len = @ - nbytes,
                                        ![t].offset = @ + nbytes]
    /\ UNCHANGED <<disk, fileq, flushq, file_handle_lock, flush_lock, force_error,
                   superuser, op_count, fh_ops, object_flushes, locs, result>>
    /\ UNCHANGED <<dirent, iovars, unlinked>>

\* local_file_write: the loop is over, the return.  A write that has succeeded enters
\* the history of the file
WriteReturn(t) ==
    /\ call[t].pc = "write"
    /\ call[t].ret # 0 \/ call[t].len = 0
    /\ inodes' = IF call[t].ret = 0
                  THEN [inodes EXCEPT ![call[t].local_fh[1].fd].writes =
                          Append(@, [offset |-> call[t].offset0, buf |-> call[t].buf0])]
                  ELSE inodes
    /\ Return(t, Returned("write", call[t].ret, <<>>, <<>>, NULL, call[t].local_fh))
    /\ UNCHANGED <<disk, fileq, flushq, file_handle_lock, flush_lock, force_error,
                   superuser, op_count, fh_ops, object_flushes, locs>>
    /\ UNCHANGED <<dirent, iovars, unlinked>>

\* local_file_read up to its loop
ReadBegin(t, i, offset, len) ==
    /\ MayTransfer(t)
    /\ i \in 1..Len(fileq)
    /\ read_ops' = read_ops + 1
    /\ call' = [call EXCEPT ![t] =
                  [Idle EXCEPT !.pc = "read", !.local_fh = <<fileq[i]>>,
                               !.offset = offset, !.len = len,
                               !.offset0 = offset, !.len0 = len]]
    /\ UNCHANGED <<disk, fileq, flushq, file_handle_lock, flush_lock, force_error,
                   superuser, op_count, fh_ops, object_flushes, write_ops, locs, result>>
    /\ UNCHANGED <<fsvars, unlinked>>

\* one round of the loop of local_file_read: pread fails on a descriptor that was not
\* opened for reading, transfers no byte at or after the end of the file (and the
\* round changes nothing), or transfers nbytes bytes, which may be fewer than len
ReadStep(t, nbytes) ==
    /\ call[t].pc = "read"
    /\ call[t].ret = 0
    /\ call[t].len > 0
    /\ LET local_fh == call[t].local_fh[1]
           data == inodes[local_fh.fd].data
           left == Len(data) - call[t].offset
       IN  IF local_fh.temp_path # NULL
           THEN call' = [call EXCEPT ![t].ret = EBADF]
           ELSE IF left <= 0
           THEN call' = call
           ELSE /\ nbytes \in 1..call[t].len
                /\ nbytes <= left
                /\ call' = [call EXCEPT
                              ![t].buf = @ \o SubSeq(data, call[t].offset + 1,
                                                     call[t].offset + nbytes),
                              ![t].len = @ - nbytes,
                              ![t].offset = @ + nbytes]
    /\ UNCHANGED <<disk, fileq, flushq, file_handle_lock, flush_lock, force_error,
                   superuser, op_count, fh_ops, object_flushes, locs, result>>
    /\ UNCHANGED <<fsvars, iovars, unlinked>>

\* local_file_read: the loop is over, the return
ReadReturn(t) ==
    /\ call[t].pc = "read"
    /\ call[t].ret # 0 \/ call[t].len = 0
    /\ Return(t, Returned("read", call[t].ret, call[t].buf, <<>>, NULL, call[t].local_fh))
    /\ UNCHANGED <<disk, fileq, flushq, file_handle_lock, flush_lock, force_error,
                   superuser, op_count, fh_ops, object_flushes, locs>>
    /\ UNCHANGED <<fsvars, iovars, unlinked>>

----------------------------------------------------------------------------
(* local_flush. *)

\* a faulty local_flush, which counts the operation before it checks its arguments
FlushBegin_counts(t, location, name) ==
    /\ call[t].pc = "idle"
    /\ op_count < MaxOps
    /\ op_count' = op_count + 1
    /\ IF location = <<>> /\ name # NULL
       THEN /\ Return(t, Returned("flush", EINVAL, <<>>, location, name, <<>>))
            /\ UNCHANGED flush_lock
       ELSE /\ flush_lock = NoThread
            /\ flush_lock' = t
            /\ call' = [call EXCEPT ![t] =
                          [Idle EXCEPT !.pc = "flush_scan", !.location = location,
                                       !.name = name, !.idx = 1,
                                       !.flushq0 = flushq, !.disk0 = disk,
                                       !.object_flushes0 = object_flushes,
                                       !.match = IF location = <<>> THEN NULL
                                                 ELSE local_location_path(location[1],
                                                        IF name = NULL THEN <<>> ELSE name,
                                                        NULL)]]
            /\ UNCHANGED result
    /\ UNCHANGED <<disk, fileq, flushq, file_handle_lock, force_error, superuser,
                   fh_ops, object_flushes, locs>>
    /\ UNCHANGED <<fsvars, iovars, unlinked>>

\* local_flush up to the loop: the argument check, the match string, the lock
FlushBegin(t, location, name) ==
    /\ call[t].pc = "idle"
    /\ IF location = <<>> /\ name # NULL
       THEN /\ Return(t, Returned("flush", EINVAL, <<>>, location, name, <<>>))
            /\ UNCHANGED <<op_count, flush_lock>>
       ELSE /\ op_count < MaxOps
            /\ op_count' = op_count + 1
            /\ flush_lock = NoThread
            /\ flush_lock' = t
            /\ call' = [call EXCEPT ![t] =
                          [Idle EXCEPT !.pc = "flush_scan", !.location = location,
                                       !.name = name, !.idx = 1,
                                       !.flushq0 = flushq, !.disk0 = disk,
                                       !.object_flushes0 = object_flushes,
                                       !.match = IF location = <<>> THEN NULL
                                                 ELSE local_location_path(location[1],
                                                        IF name = NULL THEN <<>> ELSE name,
                                                        NULL)]]
            /\ UNCHANGED result
    /\ UNCHANGED <<disk, fileq, flushq, file_handle_lock, force_error, superuser,
                   fh_ops, object_flushes, locs>>
    /\ UNCHANGED <<fsvars, iovars, unlinked>>

\* a faulty round, which leaves the loop when the flush of an item has failed
FlushScan_stops(t) ==
    /\ call[t].pc = "flush_scan"
    /\ call[t].idx <= Len(flushq)
    /\ LET item == flushq[call[t].idx]
           r == local_flush_one(item)
       IN  IF ~FlushMatches(item, call[t].match, call[t].name)
           THEN /\ call' = [call EXCEPT ![t].idx = @ + 1]
                /\ UNCHANGED <<disk, flushq, object_flushes>>
           ELSE /\ disk' = r.disk
                /\ object_flushes' = r.object_flushes
                /\ flushq' = TAILQ_REMOVE(flushq, call[t].idx)
                /\ call' = [call EXCEPT ![t].t_ret = r.ret,
                                        ![t].ret = IF r.ret # 0 /\ @ = 0 THEN r.ret ELSE @,
                                        ![t].flush = <<item>>,
                                        ![t].rets = Append(@, r.ret),
                                        ![t].idx = IF r.ret # 0 THEN Len(flushq) ELSE @]
    /\ UNCHANGED <<fileq, file_handle_lock, flush_lock, force_error, superuser,
                   op_count, fh_ops, locs, result>>
    /\ UNCHANGED <<fsvars, iovars, unlinked>>

\* a faulty round, of TAILQ_FOREACH without _SAFE: the loop steps over the item that
\* follows the one it removed
FlushScan_unsafe(t) ==
    /\ call[t].pc = "flush_scan"
    /\ call[t].idx <= Len(flushq)
    /\ LET item == flushq[call[t].idx]
           r == local_flush_one(item)
       IN  IF ~FlushMatches(item, call[t].match, call[t].name)
           THEN /\ call' = [call EXCEPT ![t].idx = @ + 1]
                /\ UNCHANGED <<disk, flushq, object_flushes>>
           ELSE /\ disk' = r.disk
                /\ object_flushes' = r.object_flushes
                /\ flushq' = TAILQ_REMOVE(flushq, call[t].idx)
                /\ call' = [call EXCEPT ![t].t_ret = r.ret,
                                        ![t].ret = IF r.ret # 0 /\ @ = 0 THEN r.ret ELSE @,
                                        ![t].flush = <<item>>,
                                        ![t].rets = Append(@, r.ret),
                                        ![t].idx = @ + 1]
    /\ UNCHANGED <<fileq, file_handle_lock, flush_lock, force_error, superuser,
                   op_count, fh_ops, locs, result>>
    /\ UNCHANGED <<fsvars, iovars, unlinked>>

\* one round of TAILQ_FOREACH_SAFE: the item at idx is passed over, or flushed,
\* removed and freed.  An item whose src_path is still NULL makes strcmp, strncmp
\* and strrchr read through a null pointer: the process crashes, or the test comes
\* out either way
FlushScan(t) ==
    /\ call[t].pc = "flush_scan"
    /\ call[t].idx <= Len(flushq)
    /\ LET item == flushq[call[t].idx]
           r == local_flush_one(item)
       IN  \/ /\ item.src_path = NULL
              /\ call' = Crashed
              /\ UNCHANGED <<disk, flushq, object_flushes>>
           \/ /\ \/ item.src_path = NULL
                 \/ ~FlushMatches(item, call[t].match, call[t].name)
              /\ call' = [call EXCEPT ![t].idx = @ + 1]
              /\ UNCHANGED <<disk, flushq, object_flushes>>
           \/ /\ \/ item.src_path = NULL
                 \/ FlushMatches(item, call[t].match, call[t].name)
              /\ disk' = r.disk
              /\ object_flushes' = r.object_flushes
              /\ flushq' = TAILQ_REMOVE(flushq, call[t].idx)
              /\ call' = [call EXCEPT ![t].t_ret = r.ret,
                                      ![t].ret = IF r.ret # 0 /\ @ = 0 THEN r.ret ELSE @,
                                      ![t].flush = <<item>>,
                                      ![t].rets = Append(@, r.ret)]
    /\ UNCHANGED <<fileq, file_handle_lock, flush_lock, force_error, superuser,
                   op_count, fh_ops, locs, result>>
    /\ UNCHANGED <<fsvars, iovars, unlinked>>

\* the loop is over: the unlock, and the return
FlushUnlock(t) ==
    /\ call[t].pc = "flush_scan"
    /\ call[t].idx > Len(flushq)
    /\ flush_lock' = NoThread
    /\ Return(t, Returned("flush", call[t].ret, <<>>, call[t].location, call[t].name, <<>>))
    /\ UNCHANGED <<disk, fileq, flushq, file_handle_lock, force_error, superuser,
                   op_count, fh_ops, object_flushes, locs>>
    /\ UNCHANGED <<fsvars, iovars, unlinked>>

----------------------------------------------------------------------------
(* local_terminate. *)

\* local_terminate up to its loop
Terminate(t) ==
    /\ MayCall(t)
    /\ op_count' = op_count + 1
    /\ call' = [call EXCEPT ![t] = [Idle EXCEPT !.pc = "terminate"]]
    /\ UNCHANGED <<disk, fileq, flushq, file_handle_lock, flush_lock, force_error,
                   superuser, fh_ops, object_flushes, locs, result>>
    /\ UNCHANGED <<fsvars, iovars, unlinked>>

\* a faulty round, which closes the handle as an ordinary close does
TerminateClose_renames(t) ==
    /\ call[t].pc = "terminate"
    /\ fileq # <<>>
    /\ LET r == local_file_close_internal(Head(fileq), FALSE)
       IN  /\ disk' = r.disk
           /\ dirent' = r.dirent
           /\ inodes' = inodes
    /\ fileq' = Tail(fileq)
    /\ call' = [call EXCEPT ![t].local_fh = <<Head(fileq)>>, ![t].idx = @ + 1]
    /\ UNCHANGED <<flushq, file_handle_lock, flush_lock, force_error,
                   superuser, op_count, fh_ops, object_flushes, locs, result>>
    /\ UNCHANGED <<iovars, unlinked>>

\* one round of TAILQ_FOREACH_SAFE: local_file_close_internal with final true frees
\* the handle and the flush item it still owns.  local_fh is the handle of the round
\* and idx (history) the number of handles closed
TerminateClose(t) ==
    /\ call[t].pc = "terminate"
    /\ fileq # <<>>
    /\ LET r == local_file_close_internal(Head(fileq), TRUE)
       IN  /\ disk' = r.disk
           /\ dirent' = r.dirent
           /\ inodes' = inodes
    /\ fileq' = Tail(fileq)
    /\ call' = [call EXCEPT ![t].local_fh = <<Head(fileq)>>, ![t].idx = @ + 1]
    /\ UNCHANGED <<flushq, file_handle_lock, flush_lock, force_error,
                   superuser, op_count, fh_ops, object_flushes, locs, result>>
    /\ UNCHANGED <<iovars, unlinked>>

\* the loop is over: free(local) and the return.  No call may follow
TerminateEnd(t) ==
    /\ call[t].pc = "terminate"
    /\ fileq = <<>>
    /\ call' = [call EXCEPT ![t] = [Idle EXCEPT !.pc = "terminated"]]
    /\ result' = [result EXCEPT ![t] =
                    Returned("terminate", 0, <<call[t].idx>>, <<>>, NULL, call[t].local_fh)]
    /\ UNCHANGED <<disk, fileq, flushq, file_handle_lock, flush_lock, force_error,
                   superuser, op_count, fh_ops, object_flushes, locs>>
    /\ UNCHANGED <<fsvars, iovars, unlinked>>

----------------------------------------------------------------------------
(* The specification: one caller, one call after the other. *)

\* the arguments of a list call
Prefixes == { NULL, <<"x">> }
Limits == { 0, 1 }

Step(t) ==
    \/ \E info \in LocationInfos : LocationHandle(t, info)
    \/ \E location \in locs, name \in Names : Exist(t, location, name)
    \/ \E location \in locs, name \in Names : Remove(t, location, name)
    \/ \E location \in locs, name \in Names : Size(t, location, name)
    \/ \E bucket \in { l.bucket : l \in locs } :
         \E dir \in IF Cardinality(readdir(bucket)) <= MaxDir
                     THEN DirStreams(bucket) ELSE {} :
            \E location \in { l \in locs : l.bucket = bucket } :
               \E prefix \in Prefixes, limit \in Limits :
                  LocationList(t, location, prefix, limit, dir)
    \/ \E location \in locs, name \in Names :
         \E flags \in OpenFlags :
            OpenObject(t, location, name, flags)
    \/ OpenErr(t)
    \/ OpenFile(t)
    \/ \E i \in DOMAIN fileq : CloseBegin(t, i)
    \/ CloseEnqueue(t)
    \/ CloseStamp(t)
    \/ CloseInternal(t)
    \/ \E location \in {<<>>} \cup { <<l>> : l \in locs }, name \in Names \cup {NULL} :
         FlushBegin(t, location, name)
    \/ FlushScan(t)
    \/ FlushUnlock(t)
    \/ Terminate(t)
    \/ TerminateClose(t)
    \/ TerminateEnd(t)

Next == Step(Caller)

Spec == Init /\ [][Next]_vars

\* size-by-name of an object: the error local_size returns, 0 for none
local_size_ret(location, name) ==
    IF local_location_path(location, name, NULL) \in DOMAIN dirent THEN 0 ELSE ENOENT

----------------------------------------------------------------------------
(* The specification of the data path: one location, one name, and the read and
   write calls on the handles. *)

\* the location string and the object name of the data path
RWInfos ==
    { [bucket |-> <<"p">>, cluster |-> <<"a">>, kmsid |-> <<"k">>],
      [bucket |-> <<"p">>, cluster |-> <<"a", "/", "b">>, kmsid |-> <<"k">>] }
RWNames == { <<"x">> }

StepRW(t) ==
    \/ \E info \in RWInfos : LocationHandle(t, info)
    \/ \E location \in locs, name \in RWNames :
         \E flags \in {WT_SS_OPEN_CREATE, WT_SS_OPEN_READONLY} :
            OpenObject(t, location, name, flags)
    \/ OpenFile(t)
    \/ \E i \in DOMAIN fileq, offset \in Offsets, buf \in Buffers :
         WriteBegin(t, i, offset, buf)
    \/ \E nbytes \in 1..MaxLen : WriteStep(t, nbytes)
    \/ WriteReturn(t)
    \/ \E i \in DOMAIN fileq, offset \in Offsets, len \in 0..MaxLen :
         ReadBegin(t, i, offset, len)
    \/ \E nbytes \in 1..MaxLen : ReadStep(t, nbytes)
    \/ ReadReturn(t)
    \/ \E location \in locs, name \in RWNames : Remove(t, location, name)
    \/ \E i \in DOMAIN fileq : CloseBegin(t, i)
    \/ CloseEnqueue(t)
    \/ CloseStamp(t)
    \/ CloseInternal(t)

NextRW == StepRW(Caller)

\* no flush is called on the data path, so that force_error is never read
InitRW == Init /\ force_error = 0

SpecRW == InitRW /\ [][NextRW]_vars

\* the data path with a caller that keeps executing: a thread that is inside a
\* call takes the next step of the call whenever it has one (the callers are
\* free to make no further call)
SpecRWFair == SpecRW /\ WF_vars(NextRW /\ call[Caller].pc # "idle")

----------------------------------------------------------------------------
(* The concurrent specification: two threads, one location, one name.  The calls
   that take a lock take it in a step of its own, so that a thread holds the lock
   while the others run. *)

\* the location string and the object name of the concurrent specification
MTInfos == { [bucket |-> <<"p">>, cluster |-> <<"a">>, kmsid |-> <<"k">>] }
MTNames == { <<"x">> }

\* the positions of a thread inside local_file_close
ClosePcs == { "close_lock", "close_remove", "close_flush", "close_insert",
              "close_stamp", "close_internal" }

\* local_open: the open of the object's file
OpenTemp(t) ==
    /\ call[t].pc = "open_file"
    /\ LET local_fh == call[t].local_fh[1]
           open_name == IF call[t].flags = WT_SS_OPEN_CREATE THEN local_fh.temp_path
                        ELSE local_fh.path
           ret == open_errno(open_name, call[t].flags)
           fd == IF open_name \in DOMAIN dirent THEN dirent[open_name] ELSE Len(inodes) + 1
           opened == [local_fh EXCEPT !.fd = fd]
       IN  IF ret = 0
           THEN /\ disk' = disk \cup {open_name}
                /\ dirent' = [p \in DOMAIN dirent \cup {open_name} |->
                                 IF p = open_name THEN fd ELSE dirent[p]]
                /\ inodes' = IF open_name \notin DOMAIN dirent
                              THEN Append(inodes, NewInode(local_fh.location))
                              ELSE IF call[t].flags = WT_SS_OPEN_CREATE
                              THEN [inodes EXCEPT ![fd].creators =
                                                      @ \cup {local_fh.location}]
                              ELSE inodes
                /\ call' = [call EXCEPT ![t].pc = "open_lock",
                                        ![t].local_fh = <<opened>>]
                /\ result' = result
           ELSE /\ disk' = disk
                /\ UNCHANGED fsvars
                /\ Return(t, Returned("open", ret, <<>>, call[t].location,
                                      call[t].name, <<>>))
    /\ UNCHANGED <<fileq, flushq, file_handle_lock, flush_lock, force_error, superuser,
                   op_count, fh_ops, object_flushes, locs>>
    /\ UNCHANGED <<iovars, unlinked>>

\* local_open: pthread_rwlock_wrlock(&local->file_handle_lock)
OpenLock(t) ==
    /\ call[t].pc = "open_lock"
    /\ file_handle_lock = NoThread
    /\ file_handle_lock' = t
    /\ call' = [call EXCEPT ![t].pc = "open_insert"]
    /\ UNCHANGED <<disk, fileq, flushq, flush_lock, force_error, superuser,
                   op_count, fh_ops, object_flushes, locs, result>>
    /\ UNCHANGED <<fsvars, iovars, unlinked>>

\* local_open: the handle enters fileq, the unlock, and the return
OpenInsert(t) ==
    /\ call[t].pc = "open_insert"
    /\ fileq' = call[t].local_fh \o fileq
    /\ file_handle_lock' = NoThread
    /\ Return(t, Returned("open", 0, call[t].local_fh, call[t].location,
                          call[t].name, call[t].local_fh))
    /\ unlinked' = IF call[t].flags = WT_SS_OPEN_CREATE
                   THEN { IF o.location = call[t].local_fh[1].location
                             /\ o.name = call[t].local_fh[1].name
                          THEN [o EXCEPT !.created = TRUE] ELSE o : o \in unlinked }
                   ELSE unlinked
    /\ UNCHANGED <<disk, flushq, flush_lock, force_error, superuser,
                   op_count, fh_ops, object_flushes, locs>>
    /\ UNCHANGED <<fsvars, iovars>>

\* local_file_close is called on the i-th handle of fileq, which no other thread is
\* closing: fewer threads are about to take a handle like it out of fileq than
\* there are such handles
CloseCall(t, i) ==
    /\ call[t].pc = "idle"
    /\ i \in 1..Len(fileq)
    /\ Cardinality({ u \in Threads : /\ call[u].pc \in {"close_lock", "close_remove"}
                                      /\ call[u].local_fh = <<fileq[i]>> })
         < Cardinality({ j \in DOMAIN fileq : fileq[j] = fileq[i] })
    /\ fh_ops' = fh_ops + 1
    /\ call' = [call EXCEPT ![t] =
                  [Idle EXCEPT !.pc = "close_lock", !.local_fh = <<fileq[i]>>,
                               !.flushq0 = flushq]]
    /\ UNCHANGED <<disk, fileq, flushq, file_handle_lock, flush_lock, force_error,
                   superuser, op_count, object_flushes, locs, result>>
    /\ UNCHANGED <<fsvars, iovars, unlinked>>

\* local_file_close: pthread_rwlock_wrlock(&local->file_handle_lock)
CloseLock(t) ==
    /\ call[t].pc = "close_lock"
    /\ file_handle_lock = NoThread
    /\ file_handle_lock' = t
    /\ call' = [call EXCEPT ![t].pc = "close_remove"]
    /\ UNCHANGED <<disk, fileq, flushq, flush_lock, force_error, superuser,
                   op_count, fh_ops, object_flushes, locs, result>>
    /\ UNCHANGED <<fsvars, iovars, unlinked>>

\* a faulty close, which keeps file_handle_lock when it goes on to the flush queue
CloseRemove_holds(t) ==
    /\ call[t].pc = "close_remove"
    /\ LET local_fh == call[t].local_fh[1]
           i == CHOOSE j \in DOMAIN fileq : fileq[j] = local_fh
       IN  /\ fileq' = TAILQ_REMOVE(fileq, i)
           /\ file_handle_lock' = IF local_fh.flush # <<>> THEN t ELSE NoThread
           /\ call' = [call EXCEPT ![t].pc = IF local_fh.flush # <<>> THEN "close_flush"
                                             ELSE "close_internal"]
    /\ UNCHANGED <<disk, flushq, flush_lock, force_error, superuser,
                   op_count, fh_ops, object_flushes, locs, result>>
    /\ UNCHANGED <<fsvars, iovars, unlinked>>

\* local_file_close: TAILQ_REMOVE of the handle, and the unlock
CloseRemove(t) ==
    /\ call[t].pc = "close_remove"
    /\ LET local_fh == call[t].local_fh[1]
           i == CHOOSE j \in DOMAIN fileq : fileq[j] = local_fh
       IN  /\ fileq' = TAILQ_REMOVE(fileq, i)
           /\ file_handle_lock' = NoThread
           /\ call' = [call EXCEPT ![t].pc = IF local_fh.flush # <<>> THEN "close_flush"
                                             ELSE "close_internal"]
    /\ UNCHANGED <<disk, flushq, flush_lock, force_error, superuser,
                   op_count, fh_ops, object_flushes, locs, result>>
    /\ UNCHANGED <<fsvars, iovars, unlinked>>

\* a faulty close, which does not wait for flush_lock
CloseFlushLock_barges(t) ==
    /\ call[t].pc = "close_flush"
    /\ flush_lock' = t
    /\ call' = [call EXCEPT ![t].pc = "close_insert"]
    /\ UNCHANGED <<disk, fileq, flushq, file_handle_lock, force_error, superuser,
                   op_count, fh_ops, object_flushes, locs, result>>
    /\ UNCHANGED <<fsvars, iovars, unlinked>>

\* local_file_close: pthread_rwlock_wrlock(&local->flush_lock)
CloseFlushLock(t) ==
    /\ call[t].pc = "close_flush"
    /\ flush_lock = NoThread
    /\ flush_lock' = t
    /\ call' = [call EXCEPT ![t].pc = "close_insert"]
    /\ UNCHANGED <<disk, fileq, flushq, file_handle_lock, force_error, superuser,
                   op_count, fh_ops, object_flushes, locs, result>>
    /\ UNCHANGED <<fsvars, iovars, unlinked>>

\* local_file_close: the handle's flush item enters flushq, and the unlock
CloseInsert(t) ==
    /\ call[t].pc = "close_insert"
    /\ LET local_fh == call[t].local_fh[1]
       IN  /\ flushq' = TAILQ_INSERT_HEAD(flushq, [local_fh.flush[1] EXCEPT !.owner = t])
           /\ call' = [call EXCEPT ![t].pc = "close_stamp",
                                   ![t].local_fh = <<[local_fh EXCEPT !.flush = <<>>]>>]
    /\ flush_lock' = NoThread
    /\ UNCHANGED <<disk, fileq, file_handle_lock, force_error, superuser,
                   op_count, fh_ops, object_flushes, locs, result>>
    /\ UNCHANGED <<fsvars, iovars, unlinked>>

StepMT(t) ==
    \/ \E info \in MTInfos : LocationHandle(t, info)
    \/ \E location \in locs, name \in MTNames :
         \E flags \in {WT_SS_OPEN_CREATE, WT_SS_OPEN_READONLY} :
            OpenObject(t, location, name, flags)
    \/ OpenTemp(t)
    \/ OpenLock(t)
    \/ OpenInsert(t)
    \/ \E i \in DOMAIN fileq : CloseCall(t, i)
    \/ CloseLock(t)
    \/ CloseRemove(t)
    \/ CloseFlushLock(t)
    \/ CloseInsert(t)
    \/ CloseStamp(t)
    \/ CloseInternal(t)
    \/ \E location \in {<<>>} \cup { <<l>> : l \in locs }, name \in MTNames \cup {NULL} :
         FlushBegin(t, location, name)
    \/ FlushScan(t)
    \/ FlushUnlock(t)
    \/ \E location \in locs, dir \in DirStreams(<<"p">>) :
         LocationList(t, location, NULL, 0, dir)

NextMT == \E t \in Threads : StepMT(t)

SpecMT == Init /\ [][NextMT]_vars

----------------------------------------------------------------------------
(* Notions the properties use. *)

\* no call is executing
Quiescent == \A t \in Threads : call[t].pc = "idle"

\* thread t has just been returned from a call of op
JustReturned(t, op) == call[t].pc = "idle" /\ result[t].op = op

\* the elements of a sequence
Range(q) == { q[i] : i \in DOMAIN q }

\* an ordinary, unlimited listing of location returns name, whatever the order of
\* the directory
Listed(location, name) ==
    \A dir \in DirStreams(location.bucket) :
        name \in Range(local_location_list_internal(location, NULL, NULL, 0, dir))

\* an ordinary, unlimited listing of location does not return name, whatever the
\* order of the directory
NotListed(location, name) ==
    \A dir \in DirStreams(location.bucket) :
        name \notin Range(local_location_list_internal(location, NULL, NULL, 0, dir))

\* thread t's flush call has left its loop and is about to release flush_lock
FlushDone(t) == call[t].pc = "flush_scan" /\ call[t].idx > Len(flushq)

----------------------------------------------------------------------------
(* C1 *)

\* C1 (first half): while a creation handle opened on a name that had no file is
\* open, local_exist returns false for the name and an ordinary listing of the
\* location does not return it.
C1_HiddenWhileOpen ==
    \A i \in DOMAIN fileq :
        (fileq[i].temp_path # NULL /\ fileq[i].fresh) =>
            /\ ~local_exist(fileq[i].location, fileq[i].name)
            /\ NotListed(fileq[i].location, fileq[i].name)

\* C1 (second half): once the close of a creation handle has returned 0,
\* local_exist returns true for the name, an ordinary listing of the location
\* returns it, and the TEMP_ file is gone.
C1_VisibleOnceClosed ==
    \A t \in Threads :
        (/\ JustReturned(t, "close")
         /\ result[t].ret = 0
         /\ result[t].local_fh[1].temp_path # NULL) =>
            LET local_fh == result[t].local_fh[1]
            IN  /\ local_exist(local_fh.location, local_fh.name)
                /\ Listed(local_fh.location, local_fh.name)
                /\ local_fh.temp_path \notin disk

\* C1: an object is hidden from local_exist and from ordinary listings from its
\* create-open until its close returns, and visible to both, with no TEMP_ file
\* left, once the close has returned successfully: for every location that
\* local_location_handle accepts.
C1_CreateCloseVisibility == C1_HiddenWhileOpen /\ C1_VisibleOnceClosed

----------------------------------------------------------------------------
(* C2 *)

\* C2: in every reachable state every item of the flush queue has its FLUSH_
\* marker file on disk.
C2_QueuedItemsHaveMarkers ==
    \A i \in DOMAIN flushq : flushq[i].marker_path \in disk

----------------------------------------------------------------------------
(* C3 *)

CreatesMarker(m) ==
    \E t \in Threads :
        /\ call[t].pc = "idle"
        /\ call'[t].pc = "open_file"
        /\ call'[t].flags = WT_SS_OPEN_CREATE
        /\ call'[t].local_fh[1].flush[1].marker_path = m

\* this step is a round of local_flush that flushes an item whose marker file is m
\* and gets t_ret for it
FlushesMarker(m, t_ret) ==
    \E t \in Threads :
        /\ call[t].pc = "flush_scan"
        /\ Len(flushq') < Len(flushq)
        /\ flushq[call[t].idx].marker_path = m
        /\ call'[t].t_ret = t_ret

\* the paths of the marker files of the objects the callers can name
MarkerPaths ==
    { local_location_path(local_location_handle(info).location[1], name, MARKER_NEED_FLUSH) :
        info \in { i \in LocationInfos : local_location_handle(i).ret = 0 }, name \in Names }

----------------------------------------------------------------------------
(* C4 *)

\* C4: after a create-open and the successful close of its handle, no flush having
\* run, the object's marker file exists and the flush queue holds exactly one item
\* whose source path is the object's final path.
C4_OneMarkerOneItem ==
    \A t \in Threads :
        (/\ JustReturned(t, "close")
         /\ result[t].ret = 0
         /\ result[t].local_fh[1].temp_path # NULL
         /\ object_flushes = 0) =>
            LET local_fh == result[t].local_fh[1]
            IN  /\ local_location_path(local_fh.location, local_fh.name, MARKER_NEED_FLUSH)
                      \in disk
                /\ Cardinality({ i \in DOMAIN flushq : flushq[i].src_path = local_fh.path }) = 1

----------------------------------------------------------------------------
(* C5 *)

----------------------------------------------------------------------------
(* C6 *)

----------------------------------------------------------------------------
(* C7 *)

\* thread t's flush call, given a location and a name, is over
NamedFlushDone(t) == FlushDone(t) /\ call[t].location # <<>> /\ call[t].name # NULL

\* the items of q with source path src_path, and the others
ItemsOf(q, src_path) == SelectSeq(q, LAMBDA item : item.src_path = src_path)
ItemsNotOf(q, src_path) == SelectSeq(q, LAMBDA item : item.src_path # src_path)

----------------------------------------------------------------------------
(* C8 *)

\* item was created through a location with the bucket and the cluster of location
CreatedThrough(item, location) ==
    /\ item.location.bucket = location.bucket
    /\ item.location.cluster_prefix = location.cluster_prefix

\* C8: a flush given a location and no name removes all and only the items of the
\* objects created through that location; the items of another cluster or another
\* bucket stay in the queue, their marker files untouched.
C8_FlushLocationOnly ==
    \A t \in Threads :
        (FlushDone(t) /\ call[t].location # <<>> /\ call[t].name = NULL) =>
            /\ flushq = SelectSeq(call[t].flushq0,
                                  LAMBDA item : ~CreatedThrough(item, call[t].location[1]))
            /\ \A i \in DOMAIN flushq :
                  flushq[i].marker_path \in call[t].disk0 => flushq[i].marker_path \in disk

----------------------------------------------------------------------------
(* C9 *)

\* C9: a flush given neither a location nor a name flushes every item: when it
\* releases flush_lock the queue is empty, and object_flushes has grown by the
\* number of items it found.
C9_GlobalFlushEmpties ==
    \A t \in Threads :
        (FlushDone(t) /\ call[t].location = <<>>) =>
            /\ flushq = <<>>
            /\ object_flushes = call[t].object_flushes0 + Len(call[t].flushq0)

\* C9 (witness): a flush given neither a location nor a name is about to release
\* flush_lock, having found and flushed two items of two objects.
C9_TwoItemsFlushed ==
    \E t \in Threads :
        /\ FlushDone(t)
        /\ call[t].location = <<>>
        /\ Len(call[t].flushq0) = 2
        /\ call[t].flushq0[1].src_path # call[t].flushq0[2].src_path
        /\ flushq = <<>>
        /\ object_flushes = call[t].object_flushes0 + 2

----------------------------------------------------------------------------
(* C10 *)

\* this step is thread t's call of local_flush with a name and no location
NameOnlyFlush(t) ==
    /\ call[t].pc = "idle"
    /\ call'[t].pc = "idle"
    /\ result'[t].op = "flush"
    /\ result'[t].location = <<>>
    /\ result'[t].name # NULL

\* C10: a flush given a name and no location returns EINVAL and changes nothing:
\* the flush queue, the files, object_flushes and op_count are as before, and no
\* lock is taken.
C10_NameOnlyFlushRejected ==
    [][\A t \in Threads :
          NameOnlyFlush(t) =>
              /\ result'[t].ret = EINVAL
              /\ UNCHANGED <<flushq, disk, object_flushes, op_count>>
              /\ flush_lock' = NoThread
              /\ file_handle_lock' = NoThread]_vars

\* C10 (witness): a flush given a name and no location has returned EINVAL while an
\* item was in the flush queue.
C10_RejectedWithPending ==
    \E t \in Threads :
        /\ JustReturned(t, "flush")
        /\ result[t].location = <<>>
        /\ result[t].name # NULL
        /\ result[t].ret = EINVAL
        /\ flushq # <<>>

----------------------------------------------------------------------------
(* C11 *)

\* the first element of rets that is not 0, and 0 when there is none
RECURSIVE FirstError(_)
FirstError(rets) ==
    IF rets = <<>> THEN 0
    ELSE IF Head(rets) # 0 THEN Head(rets)
    ELSE FirstError(Tail(rets))

----------------------------------------------------------------------------
(* C12 *)

\* C12: for any two locations of one bucket that local_location_handle has accepted
\* and any two names, when the (cluster, name) pairs differ the final paths
\* local_location_path computes differ.
C12_PathsDoNotAlias ==
    \A l1 \in locs, l2 \in locs, n1 \in Names, n2 \in Names :
        (l1.bucket = l2.bucket /\ <<l1.cluster_prefix, n1>> # <<l2.cluster_prefix, n2>>) =>
            local_location_path(l1, n1, NULL) # local_location_path(l2, n2, NULL)

----------------------------------------------------------------------------
(* C13 *)

\* the cluster string a location was opened with: its cluster_prefix without the "_"
\* local_config_dup appended
ClusterOf(location) == SubSeq(location.cluster_prefix, 1, Len(location.cluster_prefix) - 1)

\* C13: local_location_handle returns an error and no location for every cluster
\* that holds a '_' or a '/', so that the cluster of every location it has returned
\* holds neither.
C13_ClusterHasNoSeparator ==
    /\ \A location \in locs :
          ~strrchr(ClusterOf(location), "_") /\ ~strrchr(ClusterOf(location), "/")
    /\ \A t \in Threads :
          (JustReturned(t, "location_handle") /\ result[t].ret # 0) => result[t].val = <<>>

----------------------------------------------------------------------------
(* C14 *)

\* C14: every name an ordinary listing has returned is, with the cluster prefix put
\* back, an entry of the bucket directory that begins neither with TEMP_ nor with
\* FLUSH_ and is neither "." nor "..".
C14_ListingHidesArtifacts ==
    \A t \in Threads :
        JustReturned(t, "location_list") =>
            \A i \in DOMAIN result[t].val :
                LET location == result[t].location[1]
                    basename == location.cluster_prefix \o result[t].val[i]
                IN  /\ basename \in readdir(location.bucket)
                    /\ ~strncmp_eq(basename, MARKER_TEMPORARY)
                    /\ ~strncmp_eq(basename, MARKER_NEED_FLUSH)
                    /\ basename # <<".">>
                    /\ basename # <<".", ".">>

\* C14 (witness): an ordinary listing has returned a name while the directory held a
\* TEMP_ file and a FLUSH_ file of the location.
C14_ListedBesideArtifacts ==
    \E t \in Threads :
        /\ JustReturned(t, "location_list")
        /\ result[t].val # <<>>
        /\ \E name \in Names :
              local_location_path(result[t].location[1], name, MARKER_TEMPORARY) \in disk
        /\ \E name \in Names :
              local_location_path(result[t].location[1], name, MARKER_NEED_FLUSH) \in disk

----------------------------------------------------------------------------
(* C15 *)

\* the entries of the directory stream dir an ordinary listing of location with
\* prefix is to return, in the order of dir: those that are no TEMP_ or FLUSH_
\* file, begin with the cluster prefix and, after it, with prefix
MatchingEntries(location, prefix, dir) ==
    SelectSeq(dir, LAMBDA basename :
        /\ basename \notin { <<".">>, <<".", ".">> }
        /\ ~strncmp_eq(basename, MARKER_TEMPORARY)
        /\ ~strncmp_eq(basename, MARKER_NEED_FLUSH)
        /\ strncmp_eq(basename,
                      location.cluster_prefix \o (IF prefix = NULL THEN <<>> ELSE prefix)))

\* C15: whenever a listing may be called, for every location, prefix, limit and
\* order of the directory, an ordinary listing returns the names of the matching
\* entries in the order of the directory: all of them when limit is 0, the first
\* min(limit, their number) otherwise.
C15_ListPrefixOrderLimit ==
    \A bucket \in { l.bucket : l \in locs } :
        \A dir \in IF Quiescent /\ Cardinality(readdir(bucket)) <= MaxDir
                    THEN DirStreams(bucket) ELSE {} :
            \A location \in { l \in locs : l.bucket = bucket } :
                \A prefix \in Prefixes, limit \in Limits :
                    LET all == MatchingEntries(location, prefix, dir)
                        n == IF limit = 0 \/ Len(all) < limit THEN Len(all) ELSE limit
                        got == local_location_list_internal(location, NULL, prefix, limit, dir)
                    IN  /\ Len(got) = n
                        /\ \A i \in 1..n : location.cluster_prefix \o got[i] = all[i]

\* C15 (witness): a listing has returned one name, of an entry that begins with
\* the prefix, while two entries of the directory matched: the limit has cut it.
C15_LimitCutsListing ==
    \E t \in Threads :
        /\ JustReturned(t, "location_list")
        /\ Len(result[t].val) = 1
        /\ \E dir \in DirStreams(result[t].location[1].bucket) :
              /\ Len(MatchingEntries(result[t].location[1], result[t].name, dir)) = 2
              /\ result[t].val
                    = local_location_list_internal(result[t].location[1], NULL,
                                                   result[t].name, 1, dir)

----------------------------------------------------------------------------
\* C16: an object that a remove call has removed does not exist, and its size is the
\* not-found error, until a create-open of its location and name that follows the
\* remove has succeeded and a creation handle of it has been closed
C16_RemovedStaysAbsent ==
    \A o \in unlinked :
        /\ ~local_exist(o.location, o.name)
        /\ local_size_ret(o.location, o.name) = ENOENT

----------------------------------------------------------------------------
\* thread t is at the end of a read of len0 bytes at offset 0 through a read-only
\* handle, of an object whose file has been written once, len0 bytes at offset 0
RoundTripRead(t) ==
    /\ call[t].pc = "read"
    /\ call[t].ret # 0 \/ call[t].len = 0
    /\ call[t].offset0 = 0
    /\ call[t].local_fh[1].temp_path = NULL
    /\ LET writes == inodes[call[t].local_fh[1].fd].writes
       IN  /\ Len(writes) = 1
           /\ writes[1].offset = 0
           /\ Len(writes[1].buf) = call[t].len0

\* C17: reading N bytes at offset 0 through a read-only handle of an object that was
\* created, written once with N bytes at offset 0 and closed, succeeds and yields
\* the bytes written
C17_RoundTrip ==
    \A t \in Threads :
        RoundTripRead(t) =>
            /\ call[t].ret = 0
            /\ call[t].buf = inodes[call[t].local_fh[1].fd].writes[1].buf

\* C17 (witness): a round trip of MaxLen bytes, not all the same, is at its end
C17_TwoBytesReadBack ==
    \E t \in Threads :
        /\ RoundTripRead(t)
        /\ call[t].len0 = MaxLen
        /\ call[t].buf = <<1, 2>>

----------------------------------------------------------------------------
\* C18: a step that puts an item into flushq puts it there with its src_path set,
\* and the file of that path exists: the rename to the final path has been done
C18_EnqueuedAfterRename ==
    [][Len(flushq') > Len(flushq) =>
          /\ flushq'[1].src_path # NULL
          /\ flushq'[1].src_path \in disk']_vars

----------------------------------------------------------------------------
\* C19: when the close of a creation handle returns the error of its rename, no file
\* has the final path of the handle and flushq is what it was when the close began:
\* the item of the handle is not in it
C19_FailedRenameDiscards ==
    [][\A t \in Threads :
          (/\ call[t].pc = "close_internal"
           /\ call[t].local_fh[1].temp_path # NULL
           /\ result'[t].op = "close"
           /\ result'[t].ret # 0)
          => /\ call[t].local_fh[1].path \notin disk'
             /\ flushq' = call[t].flushq0]_vars

----------------------------------------------------------------------------
\* thread t enters a create-open in this step, and the call goes on to the open of
\* the TEMP_ file
CreateOpenGoesOn(t) ==
    /\ call[t].pc = "idle"
    /\ call'[t].pc = "open_file"
    /\ call'[t].flags = WT_SS_OPEN_CREATE

\* thread t enters an open in this step, and the call returns before the open of the
\* object's file
OpenReturnsEarly(t) ==
    /\ call[t].pc = "idle"
    /\ call'[t].pc = "idle"
    /\ op_count' = op_count + 1
    /\ result'[t].op = "open"

\* thread t opens the TEMP_ file of a create-open in this step
TempOpened(t) ==
    /\ call[t].pc = "open_file"
    /\ call[t].flags = WT_SS_OPEN_CREATE
    /\ result'[t].ret = 0

\* C20: a create-open goes on to the TEMP_ file only with the marker file made, and
\* makes no TEMP_ file before; the step that creates or opens the TEMP_ file finds the
\* marker file there; and a create-open whose marker file cannot be made returns the
\* error with no file made
C20_MarkerBeforeTemp ==
    [][\A t \in Threads :
          /\ CreateOpenGoesOn(t) =>
                /\ call'[t].local_fh[1].flush[1].marker_path \in disk'
                /\ disk' \ disk \subseteq {call'[t].local_fh[1].flush[1].marker_path}
          /\ TempOpened(t) =>
                /\ call[t].local_fh[1].flush[1].marker_path \in disk
                /\ call[t].local_fh[1].temp_path \in disk'
          /\ OpenReturnsEarly(t) =>
                /\ result'[t].ret # 0
                /\ disk' = disk
          /\ \A location \in locs, name \in RWNames :
                (/\ call[t].pc = "idle"
                 /\ ~InBucket(local_location_path(location, name, MARKER_NEED_FLUSH))
                 /\ local_location_path(location, name, MARKER_TEMPORARY) \notin disk)
                => local_location_path(location, name, MARKER_TEMPORARY) \notin disk'
      ]_vars

\* C20 (witness): a create-open has returned the error of the open of its marker
\* file, and another has made its marker file and its TEMP_ file
C20_MarkerFailedAndMade ==
    \E t \in Threads :
        /\ JustReturned(t, "open")
        /\ result[t].ret = ENOENT
        /\ ~InBucket(local_location_path(result[t].location[1], result[t].name,
                                         MARKER_NEED_FLUSH))
        /\ \E local_fh \in Range(fileq) :
              /\ local_fh.temp_path \in disk
              /\ local_fh.flush # <<>>
              /\ local_fh.flush[1].marker_path \in disk

----------------------------------------------------------------------------
\* C21: while a flush call scans the queue every item of the queue has its src_path,
\* the item a close call is about to give its src_path is still in the queue, and
\* no thread has read or written through a pointer that is NULL or freed
C21_FlushSeesStampedItems ==
    \A t \in Threads :
        /\ call[t].pc = "flush_scan" =>
              \A i \in DOMAIN flushq : flushq[i].src_path # NULL
        /\ call[t].pc = "close_stamp" =>
              \E i \in DOMAIN flushq : flushq[i].owner = t
        /\ call[t].pc # "crashed"

----------------------------------------------------------------------------
\* C22: no thread holds both locks; a thread that waits for one lock (an open or a
\* close for file_handle_lock, a close for flush_lock, an idle thread that may call
\* flush) holds none; and the holder of a lock is at a position where it runs, never
\* where it waits, so that every lock held is released; whenever a thread is inside
\* a call, some thread can take a step
C22_LocksNeverNested ==
    /\ \A t \in Threads :
          /\ ~(file_handle_lock = t /\ flush_lock = t)
          /\ call[t].pc \in {"idle", "open_lock", "close_lock", "close_flush"} =>
                file_handle_lock # t /\ flush_lock # t
          /\ (file_handle_lock = t /\ call[t].pc # "crashed") =>
                call[t].pc \in {"open_insert", "close_remove"}
          /\ (flush_lock = t /\ call[t].pc # "crashed") =>
                call[t].pc \in {"close_insert", "flush_scan"}
    /\ (\E t \in Threads : call[t].pc \notin {"idle", "crashed"}) => ENABLED NextMT

\* C22 (witness): a close waits for flush_lock, which a flush holds, while the other
\* lock is free
C22_CloseWaitsForFlush ==
    \E t \in Threads, u \in Threads :
        /\ call[t].pc = "close_flush"
        /\ call[u].pc = "flush_scan"
        /\ flush_lock = u
        /\ file_handle_lock = NoThread

----------------------------------------------------------------------------
\* C23: a thread that scans the queue in a flush call holds flush_lock, and no other
\* thread is in the scan of a flush or at the insertion of a close; what is in the
\* queue is what the flush found when it took the lock, less the items it has
\* removed itself; and a step that puts an item in or takes one out while the flush
\* scans is a step of that flush, which takes one item out
C23_FlushHoldsLock ==
    [][\A t \in Threads :
          call[t].pc = "flush_scan" =>
             /\ flush_lock = t
             /\ \A u \in Threads \ {t} :
                   call[u].pc \notin {"flush_scan", "close_insert"}
             /\ Len(flushq) = Len(call[t].flushq0) - Len(call[t].rets)
             /\ Len(flushq') # Len(flushq) =>
                   /\ Len(flushq') = Len(flushq) - 1
                   /\ call'[t].pc = "flush_scan"
                   /\ Len(call'[t].rets) = Len(call[t].rets) + 1
                   /\ \A u \in Threads \ {t} : call'[u] = call[u]]_vars

\* C23 (witness): a flush has flushed an item and still holds the lock, while a close
\* waits for it with the item it has to insert
C23_CloseBlockedByFlush ==
    \E t \in Threads, u \in Threads :
        /\ call[t].pc = "flush_scan"
        /\ Len(call[t].rets) > 0
        /\ call[u].pc = "close_flush"
        /\ call[u].local_fh[1].flush # <<>>

----------------------------------------------------------------------------
\* C24: a step of local_terminate leaves the files and the flush queue as they are:
\* the handle it closes keeps its TEMP_ file, gets no file of its final name that
\* was not there, and its flush item does not enter the queue; and when
\* local_terminate returns no handle is left in fileq
C24_TerminateDiscards ==
    [][\A t \in Threads :
          call[t].pc = "terminate" =>
             /\ disk' = disk
             /\ dirent' = dirent
             /\ flushq' = flushq
             /\ call'[t].pc = "terminated" => fileq' = <<>>
             /\ (fileq # <<>> /\ Head(fileq).path \notin disk) =>
                   Head(fileq).path \notin disk']_vars

\* C24 (witness): local_terminate has returned; the handle it closed last was a
\* creation handle, whose TEMP_ file is there and whose object is not
C24_TerminatedWithOpenCreation ==
    \E t \in Threads :
        /\ call[t].pc = "terminated"
        /\ result[t].op = "terminate"
        /\ result[t].local_fh # <<>>
        /\ result[t].local_fh[1].temp_path \in disk
        /\ result[t].local_fh[1].path \notin disk
        /\ flushq = <<>>

----------------------------------------------------------------------------
\* C25: a step leaves the flush queue as it is, or is the step of a close that puts
\* its item at the head, or the step of that close that gives its own item the
\* src_path, or the step of a flush that takes out the item its loop is at, which
\* its match selects.  No other step changes an item or takes one out
C25_OnlyFlushRemoves ==
    [][\/ flushq' = flushq
       \/ \E t \in Threads :
            /\ call[t].pc = "close_flush"
            /\ Len(flushq') = Len(flushq) + 1
            /\ Tail(flushq') = flushq
       \/ \E t \in Threads :
            /\ call[t].pc = "close_stamp"
            /\ Len(flushq') = Len(flushq)
            /\ \A i \in DOMAIN flushq : flushq[i].owner # t => flushq'[i] = flushq[i]
       \/ \E t \in Threads :
            /\ call[t].pc = "flush_scan"
            /\ call[t].idx \in DOMAIN flushq
            /\ FlushMatches(flushq[call[t].idx], call[t].match, call[t].name)
            /\ flushq' = TAILQ_REMOVE(flushq, call[t].idx)]_vars

\* C25 (witness): a remove call has removed an object whose item is in the queue,
\* and the item is still there
C25_RemovedObjectStillQueued ==
    \E t \in Threads :
        /\ JustReturned(t, "remove")
        /\ result[t].ret = 0
        /\ \E i \in DOMAIN flushq :
              flushq[i].src_path =
                  local_location_path(result[t].location[1], result[t].name, NULL)

----------------------------------------------------------------------------
\* C26: after every step each handle of fileq has a temp_path exactly when it owns a
\* flush item, and that item is in no queue yet; the handle an open call has put
\* into fileq has both when the call was a create-open and neither when it was
\* read-only
C26_TempPathIffFlushItem ==
    [][/\ \A i \in DOMAIN fileq' :
            /\ fileq'[i].temp_path # NULL <=> fileq'[i].flush # <<>>
            /\ fileq'[i].flush # <<>> =>
                  /\ fileq'[i].flush[1].src_path = NULL
                  /\ fileq'[i].flush[1].owner = NoThread
       /\ \A t \in Threads :
            (/\ call[t].pc = "open_file"
             /\ result'[t].op = "open"
             /\ result'[t].ret = 0)
            => /\ Len(fileq') = Len(fileq) + 1
               /\ call[t].flags = WT_SS_OPEN_CREATE =>
                     Head(fileq').temp_path # NULL /\ Head(fileq').flush # <<>>
               /\ call[t].flags = WT_SS_OPEN_READONLY =>
                     Head(fileq').temp_path = NULL /\ Head(fileq').flush = <<>>]_vars

\* C26 (witness): fileq holds a creation handle and a read-only handle
C26_BothKindsOpen ==
    \E i \in DOMAIN fileq, j \in DOMAIN fileq :
        /\ fileq[i].temp_path # NULL
        /\ fileq[i].flush # <<>>
        /\ fileq[j].temp_path = NULL
        /\ fileq[j].flush = <<>>


\* C27: whenever a listing may be called, every name that an ordinary listing
\* through a location returns, in any order of the directory, is the name of an
\* object whose file was created by a create-open through a location with the
\* same bucket and the same cluster prefix.
C27_ListingOwnCluster ==
    \A location \in locs :
        \A dir \in IF Quiescent /\ Cardinality(readdir(location.bucket)) <= MaxDir
                    THEN DirStreams(location.bucket) ELSE {} :
            LET got == local_location_list_internal(location, NULL, NULL, 0, dir)
            IN  \A i \in DOMAIN got :
                    LET path == local_location_path(location, got[i], NULL)
                    IN  /\ path \in DOMAIN dirent
                        /\ \E creator \in inodes[dirent[path]].creators :
                              /\ creator.bucket = location.bucket
                              /\ creator.cluster_prefix = location.cluster_prefix


\* C28: while a handle that was opened for creation is in the registry of open
\* handles, the FLUSH_ marker file of its object exists.
C28_MarkerWhileCreationOpen ==
    \A i \in DOMAIN fileq :
        fileq[i].flush # <<>> => fileq[i].flush[1].marker_path \in disk


\* C29: the flush queue never holds two items with the same source path.
C29_QueueSourcePathsDistinct ==
    \A i, j \in DOMAIN flushq :
        (/\ i # j
         /\ flushq[i].src_path # NULL
         /\ flushq[j].src_path # NULL) => flushq[i].src_path # flushq[j].src_path


\* C30: every read call terminates: a thread that is in the loop of local_file_read
\* eventually leaves it, whatever the file holds and whatever offset and length
\* were asked for.
C30_ReadTerminates ==
    \A t \in Threads : (call[t].pc = "read") ~> (call[t].pc # "read")


\* C31: an open of an object with flags that are neither create nor read-only
\* creates no file, no marker, no entry of the handle registry and no flush item,
\* and its error path returns EINVAL to the caller: it makes no access through
\* the handle that was never allocated, so the process goes on.
C31_InvalidFlagsRejected ==
    [][\A t \in Threads :
          /\ (call[t].pc = "idle" /\ call'[t].pc = "open_err") =>
                /\ call'[t].flags \notin {WT_SS_OPEN_CREATE, WT_SS_OPEN_READONLY}
                /\ call'[t].local_fh = <<>>
                /\ <<disk, fsvars, fileq, flushq>>' = <<disk, fsvars, fileq, flushq>>
          /\ (call[t].pc = "open_err" /\ call'[t] # call[t]) =>
                /\ call'[t].pc = "idle"
                /\ result'[t].op = "open"
                /\ result'[t].ret = EINVAL
                /\ result'[t].local_fh = <<>>
                /\ <<disk, fsvars, fileq, flushq>>' = <<disk, fsvars, fileq, flushq>>]_vars

============================================================================
